---- MODULE Spec2Model ----
(***************************************************************************)
(* Model of the countdown timer and the session timer of                   *)
(* BrowserClickCounter (src/timer.py).                                     *)
(*                                                                         *)
(* Time.  time.time() returns float seconds.  The model keeps every        *)
(* instant and every duration as a fixed-point number with TicksPerSecond  *)
(* units per second, so that sub-second clock readings exist.  Sec(s) is   *)
(* the fixed-point value of s whole seconds.  The fields duration_seconds, *)
(* remaining_seconds, elapsed_when_paused, start_time, pause_time and      *)
(* last_update_time all hold fixed-point values.                           *)
(***************************************************************************)
EXTENDS Integers, Sequences, FiniteSets, TLC

\* ------------------------------------------------------------------ bounds
TicksPerSecond == 2      \* resolution of the clock (units per second)
Epoch == 4               \* clock reading when the timer is constructed (> 0)
MaxMinutes == 4          \* the clock is read up to this many minutes after Epoch
MaxScenarioMinutes == 2  \* durations 1..MaxScenarioMinutes in the 1 Hz scenario
ExtraSeconds == 3        \* seconds the 1 Hz scenario keeps updating after completion
MaxClicks == 2           \* clicks are delivered while count is below this
MaxWidgetMinutes == 2    \* the widget's clock is read up to this many minutes after Epoch

\* --------------------------------------------------------------- constants
SecondsPerMinute == 60
MinDuration == 1
MaxDuration == 60
DefaultDurationMinutes == 5
UpdateIntervalSeconds == 1

Sec(s) == s * TicksPerSecond

Max(a, b) == IF a >= b THEN a ELSE b

Min(a, b) == IF a <= b THEN a ELSE b

\* ------------------------------------------------------------- TimerState
STOPPED == "stopped"

RUNNING == "running"

PAUSED == "paused"

COMPLETED == "completed"

TimerState == {STOPPED, RUNNING, PAUSED, COMPLETED}

\* Python's None for the Optional[float] fields; never a clock reading.
None == -1

\* Python truthiness of an Optional[float]: None and 0.0 are both falsy.
Truthy(x) == x # None /\ x # 0

\* --------------------------------------------------------------- callbacks
Events ==
  {"on_tick", "on_complete", "on_start", "on_pause", "on_resume", "on_reset",
   "on_duration_change"}

\* Values of a callback slot: empty, or one of three kinds of handler.
NoHandler == "None"

NoopHandler == "noop"          \* returns normally

RaisingHandler == "raise"      \* raises an Exception

CountingHandler == "count"     \* increments handler_count[event], returns

Handlers == {NoopHandler, RaisingHandler, CountingHandler}

\* Outcome of  `if self.callbacks[e]: try: self.callbacks[e](...) except Exception: pass`
TryCallbackPropagating(h) ==
  IF h = NoHandler THEN "skipped"
  ELSE IF h = RaisingHandler THEN "propagated"
  ELSE "returned"

TryCallback(h) ==
  IF h = NoHandler THEN "skipped"
  ELSE IF h = RaisingHandler THEN "swallowed"
  ELSE "returned"

\* The invocations made when event e is triggered with arguments args.
Fire(t, e, args) ==
  IF t.callbacks[e] # NoHandler
  THEN << [event |-> e, handler |-> t.callbacks[e], args |-> args] >>
  ELSE << >>

\* Result of an operation: the object afterwards, the value returned, whether
\* an exception reached the caller, the callback invocations made, and the
\* branch of the code that was taken.
Result(t, ret, branch, calls, raised) ==
  [t |-> t, ret |-> ret, branch |-> branch, calls |-> calls, raised |-> raised]

\* An early `return ret` that fires no callback.
Return(t, ret, branch) == Result(t, ret, branch, << >>, FALSE)

\* Trigger event e on t, then `return ret`.
Trigger(t, ret, branch, e, args) ==
  Result(t, ret, branch, Fire(t, e, args),
         TryCallback(t.callbacks[e]) = "propagated")

\* ------------------------------------------------------- CountdownTimer
CT_init(default_duration_minutes) ==
  [ default_duration_minutes |-> default_duration_minutes,
    duration_minutes         |-> default_duration_minutes,
    duration_seconds         |-> Sec(default_duration_minutes * SecondsPerMinute),
    state                    |-> STOPPED,
    remaining_seconds        |-> Sec(default_duration_minutes * SecondsPerMinute),
    start_time               |-> None,
    pause_time               |-> None,
    elapsed_when_paused      |-> 0,
    callbacks                |-> [e \in Events |-> NoHandler],
    last_update_time         |-> None,
    update_interval          |-> Sec(UpdateIntervalSeconds) ]

\* The argument of set_duration: an int, or a value of another type (a float).
IntArg(v) == [isint |-> TRUE, val |-> v]

NonIntArg(v) == [isint |-> FALSE, val |-> v]

NoArg == NonIntArg(0)

CT_get_remaining_time(t) ==
  LET total_seconds == t.remaining_seconds \div TicksPerSecond
  IN  << total_seconds \div SecondsPerMinute, total_seconds % SecondsPerMinute >>

CT_set_duration_KeepsRemaining(t, minutes) ==
  IF ~minutes.isint \/ minutes.val < MinDuration \/ minutes.val > MaxDuration
  THEN Return(t, FALSE, "invalid")
  ELSE IF t.state # STOPPED
  THEN Return(t, FALSE, "not_stopped")
  ELSE LET t1 == [t EXCEPT !.duration_minutes = minutes.val,
                           !.duration_seconds = Sec(minutes.val * SecondsPerMinute)]
       IN  Trigger(t1, TRUE, "set", "on_duration_change", << minutes.val >>)

CT_set_duration_AnyState(t, minutes) ==
  IF ~minutes.isint \/ minutes.val < MinDuration \/ minutes.val > MaxDuration
  THEN Return(t, FALSE, "invalid")
  ELSE LET t1 == [t EXCEPT !.duration_minutes = minutes.val,
                           !.duration_seconds = Sec(minutes.val * SecondsPerMinute),
                           !.remaining_seconds = Sec(minutes.val * SecondsPerMinute)]
       IN  Trigger(t1, TRUE, "set", "on_duration_change", << minutes.val >>)

CT_set_duration(t, minutes) ==
  IF ~minutes.isint \/ minutes.val < MinDuration \/ minutes.val > MaxDuration
  THEN Return(t, FALSE, "invalid")
  ELSE IF t.state # STOPPED
  THEN Return(t, FALSE, "not_stopped")
  ELSE LET t1 == [t EXCEPT !.duration_minutes = minutes.val,
                           !.duration_seconds = Sec(minutes.val * SecondsPerMinute),
                           !.remaining_seconds = Sec(minutes.val * SecondsPerMinute)]
       IN  Trigger(t1, TRUE, "set", "on_duration_change", << minutes.val >>)

\* The start() shared by the variants below, with the guard and the resume
\* instant left open.
StartWith(t, current_time, rejected, resume_from) ==
  IF rejected
  THEN Return(t, FALSE, "already_running")
  ELSE LET r == IF t.state = PAUSED
                THEN Trigger([t EXCEPT !.start_time = resume_from,
                                       !.pause_time = None,
                                       !.state = RUNNING],
                             TRUE, "resume", "on_resume", << >>)
                ELSE Trigger([t EXCEPT !.start_time = current_time,
                                       !.elapsed_when_paused = 0,
                                       !.remaining_seconds = t.duration_seconds,
                                       !.state = RUNNING],
                             TRUE, "fresh", "on_start", << >>)
       IN  IF r.raised THEN r
           ELSE [r EXCEPT !.t.last_update_time = current_time]

CT_start_RejectsCompleted(t, current_time) ==
  StartWith(t, current_time, t.state \in {RUNNING, COMPLETED},
            current_time - t.elapsed_when_paused)

CT_start_ResumesFromNow(t, current_time) ==
  StartWith(t, current_time, t.state = RUNNING, current_time)

CT_start_NoRunningGuard(t, current_time) ==
  StartWith(t, current_time, FALSE, current_time - t.elapsed_when_paused)

CT_start_KeepsRemaining(t, current_time) ==
  IF t.state = RUNNING
  THEN Return(t, FALSE, "already_running")
  ELSE LET r == IF t.state = PAUSED
                THEN Trigger([t EXCEPT !.start_time = current_time - t.elapsed_when_paused,
                                       !.pause_time = None,
                                       !.state = RUNNING],
                             TRUE, "resume", "on_resume", << >>)
                ELSE Trigger([t EXCEPT !.start_time = current_time,
                                       !.elapsed_when_paused = 0,
                                       !.state = RUNNING],
                             TRUE, "fresh", "on_start", << >>)
       IN  IF r.raised THEN r
           ELSE [r EXCEPT !.t.last_update_time = current_time]

CT_start(t, current_time) ==
  IF t.state = RUNNING
  THEN Return(t, FALSE, "already_running")
  ELSE LET r == IF t.state = PAUSED
                THEN Trigger([t EXCEPT !.start_time = current_time - t.elapsed_when_paused,
                                       !.pause_time = None,
                                       !.state = RUNNING],
                             TRUE, "resume", "on_resume", << >>)
                ELSE Trigger([t EXCEPT !.start_time = current_time,
                                       !.elapsed_when_paused = 0,
                                       !.remaining_seconds = t.duration_seconds,
                                       !.state = RUNNING],
                             TRUE, "fresh", "on_start", << >>)
       IN  IF r.raised THEN r
           ELSE [r EXCEPT !.t.last_update_time = current_time]

CT_pause_NoSnapshot(t, current_time) ==
  IF t.state # RUNNING
  THEN Return(t, FALSE, "not_running")
  ELSE Trigger([t EXCEPT !.pause_time = current_time, !.state = PAUSED],
               TRUE, "paused", "on_pause", << >>)

CT_pause_WhenStarted(t, current_time) ==
  IF t.state \notin {RUNNING, PAUSED}
  THEN Return(t, FALSE, "not_running")
  ELSE LET t1 == [t EXCEPT !.pause_time = current_time]
           t2 == IF Truthy(t1.start_time)
                 THEN [t1 EXCEPT !.elapsed_when_paused = current_time - t1.start_time]
                 ELSE t1
       IN  Trigger([t2 EXCEPT !.state = PAUSED], TRUE, "paused", "on_pause", << >>)

CT_pause(t, current_time) ==
  IF t.state # RUNNING
  THEN Return(t, FALSE, "not_running")
  ELSE LET t1 == [t EXCEPT !.pause_time = current_time]
           t2 == IF Truthy(t1.start_time)
                 THEN [t1 EXCEPT !.elapsed_when_paused = current_time - t1.start_time]
                 ELSE t1
       IN  Trigger([t2 EXCEPT !.state = PAUSED], TRUE, "paused", "on_pause", << >>)

CT_resume_OnlyFromPaused(t, current_time) ==
  IF t.state # PAUSED
  THEN Return(t, FALSE, "not_paused")
  ELSE CT_start(t, current_time)

CT_resume(t, current_time) == CT_start(t, current_time)

CT_reset_ToDefaultDuration(t) ==
  Trigger([t EXCEPT !.state = STOPPED,
                    !.duration_minutes = t.default_duration_minutes,
                    !.remaining_seconds = t.duration_seconds,
                    !.start_time = None,
                    !.pause_time = None,
                    !.elapsed_when_paused = 0,
                    !.last_update_time = None],
          TRUE, "reset", "on_reset", << >>)

CT_reset_KeepsElapsed(t) ==
  Trigger([t EXCEPT !.state = STOPPED,
                    !.remaining_seconds = t.duration_seconds,
                    !.start_time = None,
                    !.pause_time = None,
                    !.last_update_time = None],
          TRUE, "reset", "on_reset", << >>)

CT_reset_KeepsPauseTime(t) ==
  Trigger([t EXCEPT !.state = STOPPED,
                    !.remaining_seconds = t.duration_seconds,
                    !.start_time = None,
                    !.elapsed_when_paused = 0,
                    !.last_update_time = None],
          TRUE, "reset", "on_reset", << >>)

CT_reset(t) ==
  Trigger([t EXCEPT !.state = STOPPED,
                    !.remaining_seconds = t.duration_seconds,
                    !.start_time = None,
                    !.pause_time = None,
                    !.elapsed_when_paused = 0,
                    !.last_update_time = None],
          TRUE, "reset", "on_reset", << >>)

CT_update_AlwaysActive(t, current_time) ==
  IF t.state # RUNNING
  THEN Return(t, TRUE, "inactive")
  ELSE IF Truthy(t.last_update_time)
          /\ current_time - t.last_update_time < t.update_interval
  THEN Return(t, TRUE, "throttled")
  ELSE IF ~Truthy(t.start_time)
  THEN Return(t, TRUE, "no_start_time")
  ELSE LET elapsed == current_time - t.start_time
           t1 == [t EXCEPT !.remaining_seconds = Max(0, t.duration_seconds - elapsed)]
       IN  IF t1.remaining_seconds <= 0
           THEN Trigger([t1 EXCEPT !.remaining_seconds = 0, !.state = COMPLETED],
                        FALSE, "completed", "on_complete", << >>)
           ELSE LET r == Trigger(t1, TRUE, "tick", "on_tick", CT_get_remaining_time(t1))
                IN  IF r.raised THEN r
                    ELSE [r EXCEPT !.t.last_update_time = current_time]

CT_update_ThrottlesInclusive(t, current_time) ==
  IF t.state # RUNNING
  THEN Return(t, t.state # COMPLETED, "inactive")
  ELSE IF Truthy(t.last_update_time)
          /\ current_time - t.last_update_time <= t.update_interval
  THEN Return(t, TRUE, "throttled")
  ELSE IF ~Truthy(t.start_time)
  THEN Return(t, TRUE, "no_start_time")
  ELSE LET elapsed == current_time - t.start_time
           t1 == [t EXCEPT !.remaining_seconds = Max(0, t.duration_seconds - elapsed)]
       IN  IF t1.remaining_seconds <= 0
           THEN Trigger([t1 EXCEPT !.remaining_seconds = 0, !.state = COMPLETED],
                        FALSE, "completed", "on_complete", << >>)
           ELSE LET r == Trigger(t1, TRUE, "tick", "on_tick", CT_get_remaining_time(t1))
                IN  IF r.raised THEN r
                    ELSE [r EXCEPT !.t.last_update_time = current_time]

CT_update_NoClamp(t, current_time) ==
  IF t.state # RUNNING
  THEN Return(t, t.state # COMPLETED, "inactive")
  ELSE IF Truthy(t.last_update_time)
          /\ current_time - t.last_update_time < t.update_interval
  THEN Return(t, TRUE, "throttled")
  ELSE IF ~Truthy(t.start_time)
  THEN Return(t, TRUE, "no_start_time")
  ELSE LET elapsed == current_time - t.start_time
           t1 == [t EXCEPT !.remaining_seconds = t.duration_seconds - elapsed]
       IN  IF t1.remaining_seconds <= 0
           THEN Trigger([t1 EXCEPT !.state = COMPLETED],
                        FALSE, "completed", "on_complete", << >>)
           ELSE LET r == Trigger(t1, TRUE, "tick", "on_tick", CT_get_remaining_time(t1))
                IN  IF r.raised THEN r
                    ELSE [r EXCEPT !.t.last_update_time = current_time]

CT_update_NoThrottle(t, current_time) ==
  IF t.state # RUNNING
  THEN Return(t, t.state # COMPLETED, "inactive")
  ELSE IF ~Truthy(t.start_time)
  THEN Return(t, TRUE, "no_start_time")
  ELSE LET elapsed == current_time - t.start_time
           t1 == [t EXCEPT !.remaining_seconds = Max(0, t.duration_seconds - elapsed)]
       IN  IF t1.remaining_seconds <= 0
           THEN Trigger([t1 EXCEPT !.remaining_seconds = 0, !.state = COMPLETED],
                        FALSE, "completed", "on_complete", << >>)
           ELSE LET r == Trigger(t1, TRUE, "tick", "on_tick", CT_get_remaining_time(t1))
                IN  IF r.raised THEN r
                    ELSE [r EXCEPT !.t.last_update_time = current_time]

CT_update_WhilePaused(t, current_time) ==
  IF t.state \notin {RUNNING, PAUSED}
  THEN Return(t, t.state # COMPLETED, "inactive")
  ELSE IF Truthy(t.last_update_time)
          /\ current_time - t.last_update_time < t.update_interval
  THEN Return(t, TRUE, "throttled")
  ELSE IF ~Truthy(t.start_time)
  THEN Return(t, TRUE, "no_start_time")
  ELSE LET elapsed == current_time - t.start_time
           t1 == [t EXCEPT !.remaining_seconds = Max(0, t.duration_seconds - elapsed)]
       IN  IF t1.remaining_seconds <= 0
           THEN Trigger([t1 EXCEPT !.remaining_seconds = 0, !.state = COMPLETED],
                        FALSE, "completed", "on_complete", << >>)
           ELSE LET r == Trigger(t1, TRUE, "tick", "on_tick", CT_get_remaining_time(t1))
                IN  IF r.raised THEN r
                    ELSE [r EXCEPT !.t.last_update_time = current_time]

CT_update(t, current_time) ==
  IF t.state # RUNNING
  THEN Return(t, t.state # COMPLETED, "inactive")
  ELSE IF Truthy(t.last_update_time)
          /\ current_time - t.last_update_time < t.update_interval
  THEN Return(t, TRUE, "throttled")
  ELSE IF ~Truthy(t.start_time)
  THEN Return(t, TRUE, "no_start_time")
  ELSE LET elapsed == current_time - t.start_time
           t1 == [t EXCEPT !.remaining_seconds = Max(0, t.duration_seconds - elapsed)]
       IN  IF t1.remaining_seconds <= 0
           THEN Trigger([t1 EXCEPT !.remaining_seconds = 0, !.state = COMPLETED],
                        FALSE, "completed", "on_complete", << >>)
           ELSE LET r == Trigger(t1, TRUE, "tick", "on_tick", CT_get_remaining_time(t1))
                IN  IF r.raised THEN r
                    ELSE [r EXCEPT !.t.last_update_time = current_time]

\* A float result kept exact, as the fraction num / den (den > 0).
Fraction(num, den) == [num |-> num, den |-> den]

FracLeq(a, b) == a.num * b.den <= b.num * a.den

FracEq(a, b) == a.num * b.den = b.num * a.den

FracMin(a, b) == IF FracLeq(a, b) THEN a ELSE b

CT_get_progress_percentage_OfRemaining(t) ==
  IF t.duration_seconds = 0
  THEN Fraction(100, 1)
  ELSE FracMin(Fraction(100, 1),
               Fraction(t.remaining_seconds * 100, t.duration_seconds))

CT_get_progress_percentage(t) ==
  IF t.duration_seconds = 0
  THEN Fraction(100, 1)
  ELSE LET elapsed_seconds == t.duration_seconds - t.remaining_seconds
       IN  FracMin(Fraction(100, 1),
                   Fraction(elapsed_seconds * 100, t.duration_seconds))

CT_set_callback_KeepsFirst(t, event, callback) ==
  IF event \notin DOMAIN t.callbacks
  THEN Return(t, FALSE, "unknown_event")
  ELSE IF t.callbacks[event] # NoHandler
  THEN Return(t, TRUE, "registered")
  ELSE Return([t EXCEPT !.callbacks[event] = callback], TRUE, "registered")

CT_set_callback_NoCheck(t, event, callback) ==
  Return([t EXCEPT !.callbacks =
            [e \in DOMAIN t.callbacks \cup {event} |->
               IF e = event THEN callback ELSE t.callbacks[e]]],
         TRUE, "registered")

CT_set_callback(t, event, callback) ==
  IF event \notin DOMAIN t.callbacks
  THEN Return(t, FALSE, "unknown_event")
  ELSE Return([t EXCEPT !.callbacks[event] = callback], TRUE, "registered")

\* --------------------------------------------------------- SessionTimer
\* datetime.now() is the same wall clock; instants and total_paused_duration
\* are fixed-point as above.  A datetime is always truthy, so the truth tests
\* of start_time and paused_time are tests for None.
ST_init ==
  [ start_time |-> None, paused_time |-> None, total_paused_duration |-> 0 ]

ST_start_Always(s, current_time) ==
  [s EXCEPT !.start_time = current_time, !.total_paused_duration = 0]

ST_start(s, current_time) ==
  IF s.start_time = None
  THEN [s EXCEPT !.start_time = current_time, !.total_paused_duration = 0]
  ELSE s

ST_pause_Restamps(s, current_time) ==
  IF s.start_time # None
  THEN [s EXCEPT !.paused_time = current_time]
  ELSE s

ST_pause(s, current_time) ==
  IF s.start_time # None /\ s.paused_time = None
  THEN [s EXCEPT !.paused_time = current_time]
  ELSE s

ST_resume_ForgetsPause(s, current_time) ==
  IF s.paused_time # None
  THEN [s EXCEPT !.paused_time = None]
  ELSE s

ST_resume(s, current_time) ==
  IF s.paused_time # None
  THEN LET pause_duration == current_time - s.paused_time
       IN  [s EXCEPT !.total_paused_duration = @ + pause_duration,
                     !.paused_time = None]
  ELSE s

ST_stop_KeepsStart(s) ==
  [s EXCEPT !.paused_time = None, !.total_paused_duration = 0]

ST_stop_KeepsPause(s) ==
  [s EXCEPT !.start_time = None, !.total_paused_duration = 0]

ST_stop(s) ==
  [s EXCEPT !.start_time = None, !.paused_time = None, !.total_paused_duration = 0]

ST_reset(s) ==
  [s EXCEPT !.start_time = None, !.paused_time = None, !.total_paused_duration = 0]

ST_is_paused(s) == s.paused_time # None

\* int(x) of a fixed-point x: truncation toward zero, in whole seconds.
IntOf(x) == IF x >= 0 THEN x \div TicksPerSecond ELSE -((-x) \div TicksPerSecond)

ST_elapsed_seconds_IgnoresOpenPause(s, current_time) ==
  IF s.start_time = None
  THEN 0
  ELSE LET total_elapsed == current_time - s.start_time
           active_elapsed == total_elapsed - s.total_paused_duration
       IN  Max(0, IntOf(active_elapsed))

ST_elapsed_seconds(s, current_time) ==
  IF s.start_time = None
  THEN 0
  ELSE LET total_elapsed == current_time - s.start_time
           active_elapsed == total_elapsed - s.total_paused_duration
           active_now == IF s.paused_time # None
                         THEN active_elapsed - (current_time - s.paused_time)
                         ELSE active_elapsed
       IN  Max(0, IntOf(active_now))

\* ---------------------------------------------------------- ClickTracker
\* Screen coordinates are integers (pixels); a region is a rectangle
\* x1 <= x2, y1 <= y2 of at least 10 by 10, as RegionDrawer produces it.  click_times holds readings of the
\* same clock, in the units of Sec.
SecondsPerHour == 3600

MilestoneMajor == 1000

MilestoneMinor == 100

LeftButton == "left"

RightButton == "right"

NoMilestone == "None"

NoListener == "no_listener"

Region(x1, y1, x2, y2) == [x1 |-> x1, y1 |-> y1, x2 |-> x2, y2 |-> y2]

NoRegion == Region(None, None, None, None)

\* A settings file: absent, or the values json.load yields.
NoFile == [exists |-> FALSE]

SettingsFile(regions, last_region, browser_detection) ==
  [exists |-> TRUE, regions |-> regions, last_region |-> last_region,
   browser_detection |-> browser_detection]

CK_init ==
  [ count             |-> 0,
    regions           |-> << >>,
    click_times       |-> << >>,
    start_time        |-> None,
    browser_detection |-> TRUE,
    listener          |-> NoListener,
    is_listening      |-> FALSE,
    is_paused         |-> FALSE,
    last_region       |-> NoRegion ]

CK_add_region(t, region) ==
  [t EXCEPT !.regions = Append(@, region), !.last_region = region]

CK_load_settings(t, settings) ==
  IF settings.exists
  THEN LET t1 == [t EXCEPT !.regions = settings.regions,
                           !.last_region = settings.last_region,
                           !.browser_detection = settings.browser_detection]
       IN  IF t1.last_region # NoRegion /\ t1.regions = << >>
           THEN [t1 EXCEPT !.regions = << t1.last_region >>]
           ELSE t1
  ELSE t

CK_clear_regions(t) == [t EXCEPT !.regions = << >>]

CK_reset_session(t) ==
  [t EXCEPT !.count = 0, !.click_times = << >>, !.start_time = None]

\* window_is_browser is what the window lookup at (x, y) yields: true when
\* the window under the point belongs to a browser process, false when
\* there is no window, another process, or the lookup fails.
CK_is_browser_window(t, window_is_browser) ==
  IF ~t.browser_detection THEN TRUE ELSE window_is_browser

InRegion(region, x, y) ==
  region.x1 <= x /\ x <= region.x2 /\ region.y1 <= y /\ y <= region.y2

CK_check_milestone(count) ==
  IF count % MilestoneMajor = 0 /\ count > 0 THEN "major"
  ELSE IF count % MilestoneMinor = 0 /\ count > 0 THEN "minor"
  ELSE NoMilestone

CountResult(t, counted, milestone) ==
  [t |-> t, counted |-> counted, milestone |-> milestone]

\* The body run for a region that contains the point.
CountOne(t, current_time) ==
  LET cutoff == current_time - Sec(SecondsPerHour)
      after(c) == c > cutoff
  IN  [t EXCEPT !.count = @ + 1,
                !.click_times = SelectSeq(Append(@, current_time), after)]

CK_count_if_in_regions_EveryRegion(t, x, y, current_time) ==
  LET hits == { i \in 1..Len(t.regions) : InRegion(t.regions[i], x, y) }
      t1 == CountOne(t, current_time)
  IN  IF hits = {}
      THEN CountResult(t, FALSE, NoMilestone)
      ELSE CountResult([t1 EXCEPT !.count = t.count + Cardinality(hits)], TRUE,
                   CK_check_milestone(t.count + Cardinality(hits)))

\* The loop returns at the first region that contains the point.
CK_count_if_in_regions(t, x, y, current_time) ==
  IF \E i \in 1..Len(t.regions) : InRegion(t.regions[i], x, y)
  THEN LET t1 == CountOne(t, current_time)
       IN  CountResult(t1, TRUE, CK_check_milestone(t1.count))
  ELSE CountResult(t, FALSE, NoMilestone)

\* What is recorded as returned for a method that returns nothing.
NoReturn == TRUE

ClickArg(x, y, button, pressed, window_is_browser) ==
  [x |-> x, y |-> y, button |-> button, pressed |-> pressed,
   window_is_browser |-> window_is_browser]

\* The invocation of on_counted(milestone), if a handler was given.
CallCounted(on_counted, milestone) ==
  IF on_counted # NoHandler
  THEN << [event |-> "on_counted", handler |-> on_counted, args |-> << milestone >>] >>
  ELSE << >>

CK_handle_click_IgnoresPause(t, c, on_counted, current_time) ==
  IF ~(c.pressed /\ c.button = LeftButton)
  THEN Return(t, NoReturn, "ignored")
  ELSE IF ~CK_is_browser_window(t, c.window_is_browser)
  THEN Return(t, NoReturn, "not_browser")
  ELSE LET r == CK_count_if_in_regions(t, c.x, c.y, current_time)
       IN  IF r.counted
           THEN Result(r.t, NoReturn, "counted", CallCounted(on_counted, r.milestone),
                       TryCallback(on_counted) = "propagated")
           ELSE Return(r.t, NoReturn, "no_region")

CK_handle_click(t, c, on_counted, current_time) ==
  IF ~(c.pressed /\ c.button = LeftButton)
  THEN Return(t, NoReturn, "ignored")
  ELSE IF t.is_paused
  THEN Return(t, NoReturn, "paused")
  ELSE IF ~CK_is_browser_window(t, c.window_is_browser)
  THEN Return(t, NoReturn, "not_browser")
  ELSE LET r == CK_count_if_in_regions(t, c.x, c.y, current_time)
       IN  IF r.counted
           THEN Result(r.t, NoReturn, "counted", CallCounted(on_counted, r.milestone),
                       TryCallback(on_counted) = "propagated")
           ELSE Return(r.t, NoReturn, "no_region")

\* listener holds the on_counted the running mouse listener was created
\* with (None: no listener).
CK_start_listening(t, on_counted, current_time) ==
  IF t.is_listening
  THEN t
  ELSE [t EXCEPT !.listener = on_counted,
                 !.is_listening = TRUE,
                 !.is_paused = FALSE,
                 !.start_time = IF @ = None THEN current_time ELSE @]

CK_pause_listening(t) ==
  IF t.is_listening THEN [t EXCEPT !.is_paused = TRUE] ELSE t

CK_resume_listening(t) ==
  IF t.is_listening THEN [t EXCEPT !.is_paused = FALSE] ELSE t

CK_stop_listening_KeepsPaused(t) ==
  [t EXCEPT !.listener = NoListener, !.is_listening = FALSE]

CK_stop_listening(t) ==
  [t EXCEPT !.listener = NoListener, !.is_listening = FALSE, !.is_paused = FALSE]

\* --------------------------------------------- sessions and the main window
\* The file last_session.json: absent, or the dictionary save_session
\* dumps.  iph, a float derived from clicks and duration_seconds, is left
\* out; duration_formatted is the triple of hours, minutes and seconds.
CK_format_duration(seconds) ==
  << seconds \div SecondsPerHour,
     (seconds % SecondsPerHour) \div SecondsPerMinute,
     seconds % SecondsPerMinute >>

CK_save_session(t, session_duration_seconds, file, current_time) ==
  IF t.count = 0 /\ session_duration_seconds = 0
  THEN file
  ELSE [ exists             |-> TRUE,
         clicks             |-> t.count,
         duration_seconds   |-> session_duration_seconds,
         duration_formatted |-> CK_format_duration(session_duration_seconds),
         completed_at       |-> current_time,
         regions_used       |-> Len(t.regions) ]

\* The main window g: its ClickTracker (tracker), its SessionTimer (timer)
\* and the session file.  on_click_counted refreshes the count label and
\* returns.
OnClickCounted == NoopHandler

GUI_save_current_session(g, current_time) ==
  LET duration_seconds == ST_elapsed_seconds(g.timer, current_time)
  IN  [g EXCEPT !.last_session =
                   CK_save_session(g.tracker, duration_seconds, @, current_time)]

\* Without regions the button only offers to draw one.
GUI_toggle_listening(g, current_time) ==
  IF g.tracker.regions = << >>
  THEN g
  ELSE IF g.tracker.is_listening
  THEN [g EXCEPT !.tracker = CK_stop_listening(@), !.timer = ST_stop(@)]
  ELSE [g EXCEPT !.tracker = CK_start_listening(@, OnClickCounted, current_time),
                 !.timer = ST_start(@, current_time)]

GUI_toggle_pause(g, current_time) ==
  IF ~g.tracker.is_listening
  THEN g
  ELSE IF g.tracker.is_paused
  THEN [g EXCEPT !.tracker = CK_resume_listening(@),
                 !.timer = ST_resume(@, current_time)]
  ELSE [g EXCEPT !.tracker = CK_pause_listening(@),
                 !.timer = ST_pause(@, current_time)]

\* The guard of reset_session and of on_closing: is there a session to save.
GUI_has_session(g, current_time) ==
  g.tracker.count > 0 \/ ST_elapsed_seconds(g.timer, current_time) > 0

\* on_closing, as far as the tracker, the session timer and the session
\* file go (the settings file is not modelled).
GUI_on_closing(g, current_time) ==
  LET g1 == IF GUI_has_session(g, current_time)
            THEN GUI_save_current_session(g, current_time)
            ELSE g
  IN  IF g1.tracker.is_listening
      THEN [g1 EXCEPT !.tracker = CK_stop_listening(@)]
      ELSE g1

\* ------------------------------------------- TimerWidget and SoundManager
\* The widget, its timer, its sound manager and the pending `after` jobs of
\* the Tk event loop are threaded through the operators as one record w:
\*   timer   the CountdownTimer, its callbacks bound to the widget's handlers
\*   widget  is_updating, update_job_id, duration_var
\*   sound   enabled, is_repeating, repeat_job_id, parent_widget
\*   jobs    the pending jobs, each with id, callback and due instant
\*   log     the update() calls made, on_tick and on_complete events fired,
\*           sounds played and jobs cancelled in the current step
MillisecondsPerSecond == 1000

UpdateDelay == 1000

RepeatInterval == 3000

WidgetHandler == "widget"      \* a bound method of the TimerWidget

WidgetEvents ==
  {"on_tick", "on_complete", "on_start", "on_pause", "on_resume", "on_reset"}

Millis(ms) == (ms * TicksPerSecond) \div MillisecondsPerSecond

SM_init ==
  [ enabled |-> TRUE, is_repeating |-> FALSE, repeat_job_id |-> None,
    repeat_interval |-> RepeatInterval, parent_widget |-> FALSE ]

TW_init ==
  [ is_updating |-> FALSE, update_job_id |-> None,
    duration_var |-> DefaultDurationMinutes ]

Log(w, entry) == [w EXCEPT !.log = Append(@, entry)]

\* The ids Tk has handed out that are pending or still held by the program;
\* a new job gets an id different from all of them.
UsedIds(w) ==
  { j.id : j \in w.jobs } \cup ({w.widget.update_job_id, w.sound.repeat_job_id} \ {None})

FreshId(w) ==
  CHOOSE n \in 1..(Cardinality(UsedIds(w)) + 1) :
    /\ n \notin UsedIds(w)
    /\ \A m \in 1..(n - 1) : m \in UsedIds(w)

Job(id, callback, due) == [id |-> id, callback |-> callback, due |-> due]

\* parent.after(ms, callback) at instant current_time, returning id.
Tk_after(w, id, ms, callback, current_time) ==
  [w EXCEPT !.jobs = @ \cup { Job(id, callback, current_time + Millis(ms)) }]

\* parent.after_cancel(id): a pending job is removed, any other id is ignored.
Tk_after_cancel(w, id) ==
  IF \E j \in w.jobs : j.id = id
  THEN Log([w EXCEPT !.jobs = { j \in @ : j.id # id }], "cancel")
  ELSE w

SM_is_enabled(w) == w.sound.enabled

SM_set_enabled(w, enabled) == [w EXCEPT !.sound.enabled = enabled]

SM_play_sound(w, sound_name) ==
  IF ~w.sound.enabled THEN w ELSE Log(w, "play")

SM_stop_repeating_sound(w) ==
  IF ~w.sound.is_repeating
  THEN w
  ELSE LET w1 == [w EXCEPT !.sound.is_repeating = FALSE]
           w2 == IF w1.sound.repeat_job_id # None /\ w1.sound.parent_widget
                 THEN Tk_after_cancel(w1, w1.sound.repeat_job_id)
                 ELSE w1
       IN  [w2 EXCEPT !.sound.repeat_job_id = None,
                      !.sound.parent_widget = FALSE]

SM_schedule_repeat_Never(w, sound_name, current_time) == w

SM_schedule_repeat(w, sound_name, current_time) ==
  IF ~w.sound.is_repeating \/ ~w.sound.parent_widget
  THEN w
  ELSE LET id == FreshId(w)
       IN  [Tk_after(w, id, w.sound.repeat_interval, "repeat_sound", current_time)
              EXCEPT !.sound.repeat_job_id = id]

\* The job _schedule_repeat leaves with Tk.
SM_repeat_sound(w, sound_name, current_time) ==
  IF w.sound.is_repeating
  THEN SM_schedule_repeat(SM_play_sound(w, sound_name), sound_name, current_time)
  ELSE w

SM_start_repeating_sound(w, sound_name, parent_widget, current_time) ==
  LET w1 == IF w.sound.is_repeating THEN SM_stop_repeating_sound(w) ELSE w
  IN  IF ~w1.sound.enabled
      THEN w1
      ELSE LET w2 == [w1 EXCEPT !.sound.is_repeating = TRUE,
                                !.sound.parent_widget = parent_widget]
               w3 == SM_play_sound(w2, sound_name)
           IN  IF parent_widget
               THEN SM_schedule_repeat(w3, sound_name, current_time)
               ELSE w3

TW_stop_auto_update_KeepsJob(w) ==
  [w EXCEPT !.widget.is_updating = FALSE, !.widget.update_job_id = None]

TW_stop_auto_update(w) ==
  LET w1 == [w EXCEPT !.widget.is_updating = FALSE]
  IN  IF w1.widget.update_job_id # None
      THEN [Tk_after_cancel(w1, w1.widget.update_job_id)
              EXCEPT !.widget.update_job_id = None]
      ELSE w1

\* _update_display and _update_controls only read the timer and configure
\* labels and buttons.
TW_on_timer_tick(w) == w

TW_on_timer_complete(w, current_time) ==
  LET w1 == IF SM_is_enabled(w)
            THEN SM_start_repeating_sound(w, "timer_complete", TRUE, current_time)
            ELSE w
  IN  TW_stop_auto_update(w1)

\* The handler of event e was called by the operation with result r.
Called(r, e) ==
  /\ r.calls # << >>
  /\ r.calls[1].event = e
  /\ r.calls[1].handler = WidgetHandler

\* self.timer.update() with the widget's handlers: the widget afterwards and
\* the value returned.
TW_timer_update(w, current_time) ==
  LET r == CT_update(w.timer, current_time)
      \* the timer as the handler finds it: line 286 has not run yet
      entered == IF r.branch = "tick"
                 THEN [r.t EXCEPT !.last_update_time = w.timer.last_update_time]
                 ELSE r.t
      w1 == Log([w EXCEPT !.timer = entered], "update")
      w2 == IF Called(r, "on_complete")
            THEN TW_on_timer_complete(Log(w1, "on_complete"), current_time)
            ELSE IF Called(r, "on_tick") THEN TW_on_timer_tick(Log(w1, "on_tick"))
            ELSE w1
  IN  [ w |-> [w2 EXCEPT !.timer.last_update_time = r.t.last_update_time],
        ret |-> r.ret ]

TW_schedule_update(w, current_time) ==
  IF ~w.widget.is_updating
  THEN w
  ELSE LET u == TW_timer_update(w, current_time)
           timer_active == u.ret
       IN  IF timer_active /\ u.w.widget.is_updating
           THEN LET id == FreshId(u.w)
                IN  [Tk_after(u.w, id, UpdateDelay, "schedule_update", current_time)
                       EXCEPT !.widget.update_job_id = id]
           ELSE [u.w EXCEPT !.widget.is_updating = FALSE,
                            !.widget.update_job_id = None]

TW_start_auto_update_NeverSchedules(w, current_time) ==
  [w EXCEPT !.widget.is_updating = TRUE]

TW_start_auto_update(w, current_time) ==
  IF w.widget.is_updating
  THEN w
  ELSE TW_schedule_update([w EXCEPT !.widget.is_updating = TRUE], current_time)

TW_on_timer_start(w, current_time) == TW_start_auto_update(w, current_time)

TW_on_timer_pause_KeepsUpdating(w) == w

TW_on_timer_pause(w) == TW_stop_auto_update(w)

TW_on_timer_resume(w, current_time) == TW_start_auto_update(w, current_time)

TW_on_timer_reset_KeepsSound(w) == TW_stop_auto_update(w)

TW_on_timer_reset(w) == TW_stop_auto_update(SM_stop_repeating_sound(w))

\* self.timer.start() with the widget's handlers.  The handler runs before
\* start() assigns last_update_time (line 181), and itself calls update().
TW_timer_start(w, current_time) ==
  LET r == CT_start(w.timer, current_time)
      entered == [r.t EXCEPT !.last_update_time = w.timer.last_update_time]
      w1 == [w EXCEPT !.timer = entered]
      w2 == IF Called(r, "on_start") THEN TW_on_timer_start(w1, current_time)
            ELSE IF Called(r, "on_resume") THEN TW_on_timer_resume(w1, current_time)
            ELSE w1
  IN  IF r.ret
      THEN [w2 EXCEPT !.timer.last_update_time = r.t.last_update_time]
      ELSE w

TW_timer_resume(w, current_time) == TW_timer_start(w, current_time)

TW_timer_pause(w, current_time) ==
  LET r == CT_pause(w.timer, current_time)
      w1 == [w EXCEPT !.timer = r.t]
  IN  IF Called(r, "on_pause") THEN TW_on_timer_pause(w1) ELSE w1

TW_timer_reset(w) ==
  LET r == CT_reset(w.timer)
      w1 == [w EXCEPT !.timer = r.t]
  IN  IF Called(r, "on_reset") THEN TW_on_timer_reset(w1) ELSE w1

TW_toggle_timer_KeepsSound(w, current_time) ==
  IF w.timer.state = RUNNING THEN TW_timer_pause(w, current_time)
  ELSE IF w.timer.state = PAUSED THEN TW_timer_resume(w, current_time)
  ELSE LET duration == IntArg(w.widget.duration_var)
           w2 == [w EXCEPT !.timer = CT_set_duration(w.timer, duration).t]
       IN  TW_timer_start(w2, current_time)

TW_toggle_timer(w, current_time) ==
  LET w1 == IF w.timer.state = COMPLETED THEN SM_stop_repeating_sound(w) ELSE w
  IN  IF w1.timer.state = RUNNING THEN TW_timer_pause(w1, current_time)
      ELSE IF w1.timer.state = PAUSED THEN TW_timer_resume(w1, current_time)
      ELSE LET duration == IntArg(w1.widget.duration_var)
               w2 == [w1 EXCEPT !.timer = CT_set_duration(w1.timer, duration).t]
           IN  TW_timer_start(w2, current_time)

TW_reset_timer(w) == TW_timer_reset(w)

TW_toggle_sound(w) == SM_set_enabled(w, ~SM_is_enabled(w))

TW_set_preset_duration(w, minutes) ==
  IF w.timer.state = STOPPED
  THEN [w EXCEPT !.widget.duration_var = minutes,
                 !.timer = CT_set_duration(w.timer, IntArg(minutes)).t]
  ELSE w

TW_cleanup(w) ==
  TW_timer_reset(SM_stop_repeating_sound(TW_stop_auto_update(w)))

\* ------------------------------------------------------------------ state
VARIABLES
  now,            \* the reading time.time() and datetime.now() return
  timer,          \* the CountdownTimer object
  handler_count,  \* state of the counting handlers: invocations per event
  last,           \* observation of the last operation performed
  R,              \* time spent RUNNING since the last fresh start (or reset)
  upd_R,          \* value of R at the last update() that took effect
  effect_time,    \* instant of the last successful start()/resume() or tick
  session,        \* the SessionTimer object
  active,         \* time spent started and not paused since the last start
  frozen,         \* elapsed_seconds() at the instant the open pause began
  last_change,    \* the last SessionTimer operation that changed its state
  tracker,        \* the ClickTracker object
  pause_open,     \* pause_listening() took effect and resume_listening() was not called since
  widget,         \* the TimerWidget's own fields
  sound,          \* the SoundManager object
  jobs,           \* the pending `after` jobs of the Tk event loop
  last_session,   \* the file last_session.json
  gui_pc,         \* where the Tk thread stands: between handlers, inside reset_session, closed
  loaded,         \* the count the listener thread has read in `self.count += 1` and not yet stored
  tracked,        \* time spent listening and not paused since the session began
  reset_done      \* a confirmed reset_session has finished and tracking was not started since

timer_vars == << timer, handler_count, R, upd_R, effect_time >>

session_vars == << session, active, frozen, last_change >>

tracker_vars == << tracker, pause_open >>

widget_vars == << widget, sound, jobs >>

gui_vars == << last_session, gui_pc, loaded, tracked, reset_done >>

vars == << now, last, timer_vars, session_vars, tracker_vars, widget_vars, gui_vars >>

\* Observation of an operation: its name and argument, the state it was
\* called in, and what it did.
Observe(op, arg, pre, r) ==
  [op |-> op, arg |-> arg, pre |-> pre, branch |-> r.branch, ret |-> r.ret,
   raised |-> r.raised, calls |-> r.calls]

NoResult == Return(CT_init(DefaultDurationMinutes), TRUE, "none")

\* The counting handlers' state after the invocations in calls.
Counted(count, calls) ==
  [e \in Events |->
     count[e] + Cardinality({i \in DOMAIN calls :
                               calls[i].event = e /\ calls[i].handler = CountingHandler})]

\* The instants at which the clock is read: every whole minute after Epoch,
\* and one unit (less than update_interval) after each.
Instants ==
  { Epoch + Sec(SecondsPerMinute * m) + k : m \in 0..MaxMinutes, k \in 0..1 }

MinutesInputs == { IntArg(0), IntArg(1), IntArg(61), NonIntArg(2) }

\* Every int from below the accepted range to above it, and a non-int.
AllMinutesInputs ==
  { IntArg(v) : v \in (MinDuration - 1)..(MaxDuration + 1) } \cup { NonIntArg(2) }

Init ==
  /\ now = Epoch
  /\ timer = CT_init(DefaultDurationMinutes)
  /\ handler_count = [e \in Events |-> 0]
  /\ last = Observe("init", NoArg, STOPPED, NoResult)
  /\ R = 0
  /\ upd_R = 0
  /\ effect_time = None
  /\ session = ST_init
  /\ active = 0
  /\ frozen = 0
  /\ last_change = "init"
  /\ tracker = CK_init
  /\ pause_open = FALSE
  /\ widget = TW_init
  /\ sound = SM_init
  /\ jobs = {}
  /\ last_session = NoFile
  /\ gui_pc = "idle"
  /\ loaded = None
  /\ tracked = 0
  /\ reset_done = FALSE

\* Apply the result r of operation op to the state.
Apply(op, arg, r) ==
  /\ timer' = r.t
  /\ handler_count' = Counted(handler_count, r.calls)
  /\ last' = Observe(op, arg, timer.state, r)
  /\ R' = IF r.branch \in {"fresh", "reset"} THEN 0 ELSE R
  /\ upd_R' = IF r.branch \in {"fresh", "reset"} THEN 0
              ELSE IF r.branch \in {"tick", "completed"} THEN R
              ELSE upd_R
  /\ effect_time' = IF r.branch \in {"fresh", "resume", "tick"} THEN now
                    ELSE IF r.branch = "reset" THEN None
                    ELSE effect_time
  /\ UNCHANGED << now, session_vars, tracker_vars, widget_vars, gui_vars >>

\* The clock moves on to the reading i.
AdvanceTo(i) ==
  /\ i > now
  /\ now' = i
  /\ R' = IF timer.state = RUNNING THEN R + (i - now) ELSE R
  /\ active' = IF session.start_time # None /\ session.paused_time = None
               THEN active + (i - now) ELSE active
  /\ last' = Observe("advance", NoArg, timer.state, NoResult)
  /\ UNCHANGED << timer, handler_count, upd_R, effect_time, session, frozen,
                  last_change, tracker_vars, widget_vars, gui_vars >>

Advance == \E i \in Instants : AdvanceTo(i)

\* The host registers handler h for every event right after construction.
RECURSIVE RegisterAll(_, _, _)
RegisterAll(t, events, h) ==
  IF events = {} THEN t
  ELSE LET e == CHOOSE x \in events : TRUE
       IN  RegisterAll(CT_set_callback(t, e, h).t, events \ {e}, h)

Wire(h) ==
  /\ last.op = "init"
  /\ timer' = RegisterAll(timer, Events, h)
  /\ last' = Observe("wire", NoArg, timer.state, NoResult)
  /\ UNCHANGED << now, handler_count, R, upd_R, effect_time, session_vars,
                  tracker_vars, widget_vars, gui_vars >>

WireRaising == Wire(RaisingHandler)

SetDuration == \E m \in MinutesInputs : Apply("set_duration", m, CT_set_duration(timer, m))

Start == Apply("start", NoArg, CT_start(timer, now))

Pause == Apply("pause", NoArg, CT_pause(timer, now))

Resume == Apply("resume", NoArg, CT_resume(timer, now))

Reset == Apply("reset", NoArg, CT_reset(timer))

Update == Apply("update", NoArg, CT_update(timer, now))

Next ==
  \/ WireRaising
  \/ Advance
  \/ SetDuration
  \/ Start
  \/ Pause
  \/ Resume
  \/ Reset
  \/ Update

Spec == Init /\ [][Next]_vars

\* ------------------------------------------------- the duration interface
\* Every argument of set_duration, on a clock read at construction and one
\* minute later.
SetAnyDuration ==
  \E m \in AllMinutesInputs : Apply("set_duration", m, CT_set_duration(timer, m))

AdvanceMinute ==
  /\ now = Epoch
  /\ AdvanceTo(now + Sec(SecondsPerMinute))

NextDuration ==
  \/ WireRaising
  \/ AdvanceMinute
  \/ SetAnyDuration
  \/ Start
  \/ Pause
  \/ Reset
  \/ Update

SpecDuration == Init /\ [][NextDuration]_vars

\* ------------------------------------------------------ the 1 Hz scenario
\* A counting handler is registered for every event, a duration of 1 to
\* MaxScenarioMinutes minutes is set, the timer is started, and update() is
\* called once after every advance of the clock by one second.
WireCounting == Wire(CountingHandler)

ScenarioSetDuration ==
  /\ last.op = "wire"
  /\ \E d \in 1..MaxScenarioMinutes :
       Apply("set_duration", IntArg(d), CT_set_duration(timer, IntArg(d)))

ScenarioStart ==
  /\ last.op = "set_duration"
  /\ Start

AdvanceOneSecond ==
  /\ last.op \in {"start", "update"}
  /\ now + Sec(1) <= timer.start_time + timer.duration_seconds + Sec(ExtraSeconds)
  /\ AdvanceTo(now + Sec(1))

ScenarioUpdate ==
  /\ last.op = "advance"
  /\ Update

NextTick ==
  \/ WireCounting
  \/ ScenarioSetDuration
  \/ ScenarioStart
  \/ AdvanceOneSecond
  \/ ScenarioUpdate

SpecTick == Init /\ [][NextTick]_vars

\* ------------------------------------------------- the whole interface
\* Every operation of the timer, set_callback with known and unknown event
\* names, on a clock read at construction and one minute later.
EventInputs == {"on_tick", "on_start", "on_reset", "on_unknown"}

HandlerInputs == {NoHandler, NoopHandler, RaisingHandler}

CallbackArg(event, callback) == [event |-> event, callback |-> callback]

SetCallback ==
  \E e \in EventInputs : \E h \in HandlerInputs :
    Apply("set_callback", CallbackArg(e, h), CT_set_callback(timer, e, h))

NextInterface ==
  \/ SetCallback
  \/ AdvanceMinute
  \/ SetDuration
  \/ Start
  \/ Pause
  \/ Resume
  \/ Reset
  \/ Update

SpecInterface == Init /\ [][NextInterface]_vars

\* ------------------------------------------------ replacing callbacks
\* A raising handler is registered for every event, then set_callback
\* registers another value (a handler that returns, or None) for some
\* events, between the operations of the timer.
ReplacementInputs == {NoHandler, NoopHandler}

ReplaceCallback ==
  /\ last.op # "init"
  /\ \E e \in EventInputs : \E h \in ReplacementInputs :
       Apply("set_callback", CallbackArg(e, h), CT_set_callback(timer, e, h))

NextReplace ==
  \/ WireRaising
  \/ ReplaceCallback
  \/ AdvanceMinute
  \/ SetDuration
  \/ Start
  \/ Pause
  \/ Resume
  \/ Reset
  \/ Update

SpecReplace == Init /\ [][NextReplace]_vars

\* ------------------------------------------------------ the session timer
\* Apply a SessionTimer operation whose result is the object s.
SessionApply(op, s) ==
  /\ session' = s
  /\ last' = Observe(op, NoArg, timer.state, NoResult)
  /\ active' = IF op = "st_start" /\ s # session THEN 0 ELSE active
  /\ frozen' = IF op = "st_pause" /\ s # session
               THEN ST_elapsed_seconds(session, now) ELSE frozen
  /\ last_change' = IF op \in {"st_stop", "st_reset"} \/ s # session
                    THEN op ELSE last_change
  /\ UNCHANGED << now, timer_vars, tracker_vars, widget_vars, gui_vars >>

SessionStart == SessionApply("st_start", ST_start(session, now))

SessionPause == SessionApply("st_pause", ST_pause(session, now))

SessionResume == SessionApply("st_resume", ST_resume(session, now))

SessionStop == SessionApply("st_stop", ST_stop(session))

SessionReset == SessionApply("st_reset", ST_reset(session))

NextSession ==
  \/ Advance
  \/ SessionStart
  \/ SessionPause
  \/ SessionResume
  \/ SessionStop
  \/ SessionReset

SpecSession == Init /\ [][NextSession]_vars

\* ------------------------------------------------------ the click tracker
\* The operations of ClickTracker, with clicks delivered by the mouse
\* listener while one is running, on a clock read at construction and one
\* hour later.
RegionA == Region(10, 10, 20, 20)

RegionB == Region(20, 20, 30, 30)

RegionInputs == {RegionA, RegionB}

\* Outside both regions, a corner of A, in both, a corner of B, beside both.
ClickPoints ==
  { << 0, 0 >>, << 10, 10 >>, << 20, 20 >>, << 30, 30 >>, << 30, 10 >> }

\* A left press over a browser window or not, a left release, a right press.
ClickInputs ==
  { ClickArg(p[1], p[2], LeftButton, TRUE, w) : p \in ClickPoints, w \in BOOLEAN }
  \cup { ClickArg(p[1], p[2], LeftButton, FALSE, TRUE) : p \in ClickPoints }
  \cup { ClickArg(p[1], p[2], RightButton, TRUE, TRUE) : p \in ClickPoints }

\* The on_counted given to start_listening: none, or one that raises.
ListenerInputs == {NoHandler, RaisingHandler}

SettingsInputs == { NoFile, SettingsFile(<< >>, RegionA, FALSE) }

TrackerApply(op, arg, t, r) ==
  /\ tracker' = t
  /\ last' = Observe(op, arg, timer.state, r)
  /\ pause_open' = IF op = "pause_listening" /\ tracker.is_listening THEN TRUE
                        ELSE IF op = "resume_listening" THEN FALSE
                        ELSE pause_open
  /\ UNCHANGED << now, timer_vars, session_vars, widget_vars, gui_vars >>

LoadSettings ==
  /\ last.op = "init"
  /\ \E f \in SettingsInputs :
       TrackerApply("load_settings", NoArg, CK_load_settings(tracker, f), NoResult)

AddRegion ==
  /\ Len(tracker.regions) < Cardinality(RegionInputs)
  /\ \E region \in RegionInputs :
       TrackerApply("add_region", NoArg, CK_add_region(tracker, region), NoResult)

ClearRegions ==
  TrackerApply("clear_regions", NoArg, CK_clear_regions(tracker), NoResult)

ResetSession ==
  TrackerApply("reset_session", NoArg, CK_reset_session(tracker), NoResult)

StartListening ==
  \E h \in ListenerInputs :
    TrackerApply("start_listening", NoArg, CK_start_listening(tracker, h, now),
                 NoResult)

PauseListening ==
  TrackerApply("pause_listening", NoArg, CK_pause_listening(tracker), NoResult)

ResumeListening ==
  TrackerApply("resume_listening", NoArg, CK_resume_listening(tracker), NoResult)

StopListening ==
  TrackerApply("stop_listening", NoArg, CK_stop_listening(tracker), NoResult)

\* The listener's callback: handle_click with the on_counted the listener
\* was started with.
HandleClick ==
  /\ tracker.listener # NoListener
  /\ tracker.count < MaxClicks
  /\ \E c \in ClickInputs :
       LET r == CK_handle_click(tracker, c, tracker.listener, now)
       IN  TrackerApply("handle_click", c, r.t,
                        Result(timer, r.ret, r.branch, r.calls, r.raised))

AdvanceHour ==
  /\ now = Epoch
  /\ AdvanceTo(now + Sec(SecondsPerHour))

NextClick ==
  \/ LoadSettings
  \/ AddRegion
  \/ ClearRegions
  \/ ResetSession
  \/ StartListening
  \/ PauseListening
  \/ ResumeListening
  \/ StopListening
  \/ HandleClick
  \/ AdvanceHour

SpecClick == Init /\ [][NextClick]_vars

\* ------------------------------------------------------ the timer widget
\* The TimerWidget's buttons and its `after` jobs, on a clock read in the
\* first seconds of each minute; Tk runs a job at or after its due instant.
\* R, upd_R and effect_time follow the timer under the specifications that
\* drive it directly and are left alone here.
WidgetInstants ==
  { Epoch + Sec(SecondsPerMinute * m + k) :
      m \in 0..MaxWidgetMinutes, k \in 0..(RepeatInterval \div MillisecondsPerSecond) }

PresetInputs == {MinDuration}

World ==
  [ timer |-> timer, widget |-> widget, sound |-> sound, jobs |-> jobs,
    log |-> << >> ]

Wired == \A e \in WidgetEvents : timer.callbacks[e] = WidgetHandler

WidgetApply(op, w) ==
  /\ timer' = w.timer
  /\ widget' = w.widget
  /\ sound' = w.sound
  /\ jobs' = w.jobs
  /\ last' = Observe(op, NoArg, timer.state, Result(w.timer, NoReturn, op, w.log, FALSE))
  /\ UNCHANGED << now, handler_count, R, upd_R, effect_time, session_vars,
                  tracker_vars, gui_vars >>

SetupTimerCallbacks ==
  /\ last.op = "init"
  /\ WidgetApply("setup_timer_callbacks",
                 [World EXCEPT !.timer = RegisterAll(timer, WidgetEvents, WidgetHandler)])

ToggleTimer == Wired /\ WidgetApply("toggle_timer", TW_toggle_timer(World, now))

ResetTimer == Wired /\ WidgetApply("reset_timer", TW_reset_timer(World))

ToggleSound == Wired /\ WidgetApply("toggle_sound", TW_toggle_sound(World))

SetPresetDuration ==
  /\ Wired
  /\ \E d \in PresetInputs :
       WidgetApply("set_preset_duration", TW_set_preset_duration(World, d))

Cleanup == Wired /\ WidgetApply("cleanup", TW_cleanup(World))

\* Tk runs a due job: the job leaves the pending set and its callback runs.
UpdateJob ==
  \E j \in jobs :
    /\ j.callback = "schedule_update"
    /\ j.due <= now
    /\ WidgetApply("schedule_update",
                   TW_schedule_update([World EXCEPT !.jobs = @ \ {j}], now))

RepeatJob ==
  \E j \in jobs :
    /\ j.callback = "repeat_sound"
    /\ j.due <= now
    /\ WidgetApply("repeat_sound",
                   SM_repeat_sound([World EXCEPT !.jobs = @ \ {j}], "timer_complete", now))

WidgetAdvance ==
  \E i \in WidgetInstants :
    /\ i > now
    /\ now' = i
    /\ last' = Observe("advance", NoArg, timer.state, NoResult)
    /\ UNCHANGED << timer_vars, session_vars, tracker_vars, widget_vars, gui_vars >>

NextWidget ==
  \/ SetupTimerCallbacks
  \/ ToggleTimer
  \/ ResetTimer
  \/ ToggleSound
  \/ SetPresetDuration
  \/ Cleanup
  \/ UpdateJob
  \/ RepeatJob
  \/ WidgetAdvance

SpecWidget == Init /\ [][NextWidget]_vars

\* The same widget with the event loop's guarantees: Tk runs a job that is
\* due, and time passes.  The clock is read in the first two seconds of two
\* minutes and once more a repeat interval later; a countdown is only
\* started or resumed when the instant it runs out is not after Horizon.
Horizon == Epoch + Sec(SecondsPerMinute + 1)

LiveInstants ==
  { Epoch + Sec(SecondsPerMinute * m + k) : m \in 0..1, k \in 0..1 }
  \cup { Horizon + Millis(RepeatInterval) }

ToggleTimerInTime ==
  /\ ToggleTimer
  /\ timer'.state = RUNNING =>
       timer'.start_time + timer'.duration_seconds <= Horizon

LiveAdvance ==
  \E i \in LiveInstants :
    /\ i > now
    /\ now' = i
    /\ last' = Observe("advance", NoArg, timer.state, NoResult)
    /\ UNCHANGED << timer_vars, session_vars, tracker_vars, widget_vars, gui_vars >>

NextWidgetLive ==
  \/ SetupTimerCallbacks
  \/ SetPresetDuration
  \/ ToggleTimerInTime
  \/ ResetTimer
  \/ UpdateJob
  \/ RepeatJob
  \/ LiveAdvance

SpecWidgetLive ==
  /\ Init
  /\ [][NextWidgetLive]_vars
  /\ WF_vars(UpdateJob)
  /\ WF_vars(LiveAdvance)

\* ------------------------------------------------------- the main window
\* The buttons of ClickCounterGUI run on the Tk thread, one handler at a
\* time; the mouse listener runs handle_click on its own thread.  The
\* statements of reset_session that touch the tracker and the session timer
\* are separate steps, and so are the read and the write of
\* `self.count += 1`, so that the listener's steps fall between them.
GuiInstants ==
  { Epoch, Epoch + 1, Epoch + Sec(SecondsPerMinute), Epoch + Sec(SecondsPerHour) }

\* A left press over a browser window, inside RegionA and outside it.
GuiClickInputs ==
  { ClickArg(10, 10, LeftButton, TRUE, TRUE), ClickArg(0, 0, LeftButton, TRUE, TRUE) }

GuiWorld == [ tracker |-> tracker, timer |-> session, last_session |-> last_session ]

GuiApply(op, branch, g, pc) ==
  /\ tracker' = g.tracker
  /\ session' = g.timer
  /\ last_session' = g.last_session
  /\ gui_pc' = pc
  /\ last' = Observe(op, NoArg, timer.state, Return(timer, NoReturn, branch))
  /\ UNCHANGED << now, handler_count, R, upd_R, effect_time, active, frozen,
                  last_change, pause_open, loaded >>

OnRegionDrawn ==
  /\ gui_pc = "idle"
  /\ tracker.regions = << >>
  /\ GuiApply("on_region_drawn", "added",
              [GuiWorld EXCEPT !.tracker = CK_add_region(@, RegionA)], "idle")
  /\ UNCHANGED << timer, widget_vars, tracked, reset_done >>

ToggleListening ==
  /\ gui_pc = "idle"
  /\ LET branch == IF tracker.regions = << >> THEN "no_regions"
                   ELSE IF tracker.is_listening THEN "stopped" ELSE "started"
     IN  /\ GuiApply("toggle_listening", branch, GUI_toggle_listening(GuiWorld, now),
                     "idle")
         /\ reset_done' = IF branch = "started" THEN FALSE ELSE reset_done
  /\ UNCHANGED << timer, widget_vars, tracked >>

TogglePause ==
  /\ gui_pc = "idle"
  /\ LET branch == IF ~tracker.is_listening THEN "not_listening"
                   ELSE IF tracker.is_paused THEN "resumed" ELSE "paused"
     IN  GuiApply("toggle_pause", branch, GUI_toggle_pause(GuiWorld, now), "idle")
  /\ UNCHANGED << timer, widget_vars, tracked, reset_done >>

\* reset_session up to save_current_session(); confirmed is the answer to
\* the question the handler asks.
ResetSessionSave ==
  /\ gui_pc = "idle"
  /\ \E confirmed \in BOOLEAN :
       IF ~GUI_has_session(GuiWorld, now)
       THEN GuiApply("reset_session", "no_session", GuiWorld, "idle")
       ELSE IF ~confirmed
       THEN GuiApply("reset_session", "declined", GuiWorld, "idle")
       ELSE GuiApply("reset_session", "saved",
                     GUI_save_current_session(GuiWorld, now), "saved")
  /\ UNCHANGED << timer, widget_vars, tracked, reset_done >>

\* self.tracker.reset_session()
ResetSessionTracker ==
  /\ gui_pc = "saved"
  /\ GuiApply("reset_session", "tracker_reset",
              [GuiWorld EXCEPT !.tracker = CK_reset_session(@)], "tracker_reset")
  /\ tracked' = 0
  /\ UNCHANGED << timer, widget_vars, reset_done >>

\* self.timer.reset()
ResetSessionTimer ==
  /\ gui_pc = "tracker_reset"
  /\ GuiApply("reset_session", "timer_reset",
              [GuiWorld EXCEPT !.timer = ST_reset(@)], "timer_reset")
  /\ UNCHANGED << timer, widget_vars, tracked, reset_done >>

\* self.tracker.stop_listening(), and the handler returns
ResetSessionStop ==
  /\ gui_pc = "timer_reset"
  /\ GuiApply("reset_session", "finished",
              [GuiWorld EXCEPT !.tracker = CK_stop_listening(@)], "idle")
  /\ reset_done' = TRUE
  /\ UNCHANGED << timer, widget_vars, tracked >>

\* on_closing also cleans up the countdown widget; the window is destroyed.
OnClosing ==
  /\ gui_pc = "idle"
  /\ GuiApply("on_closing", "closed", GUI_on_closing(GuiWorld, now), "closed")
  /\ LET w == TW_cleanup(World)
     IN  /\ timer' = w.timer
         /\ widget' = w.widget
         /\ sound' = w.sound
         /\ jobs' = w.jobs
  /\ UNCHANGED << tracked, reset_done >>

\* The listener thread enters handle_click; for a click that counts it has
\* read self.count when it is next descheduled.
ListenerEnter ==
  /\ tracker.listener # NoListener
  /\ loaded = None
  /\ tracker.count < MaxClicks
  /\ \E c \in GuiClickInputs :
       LET r == CK_handle_click(tracker, c, tracker.listener, now)
       IN  /\ loaded' = IF r.branch = "counted" THEN tracker.count ELSE None
           /\ last' = Observe("handle_click", c, timer.state,
                              Return(timer, NoReturn,
                                     IF r.branch = "counted" THEN "counting" ELSE r.branch))
  /\ UNCHANGED << now, timer_vars, session_vars, tracker_vars, widget_vars,
                  last_session, gui_pc, tracked, reset_done >>

\* The listener thread stores the incremented count and finishes the click.
ListenerStore ==
  /\ loaded # None
  /\ tracker' = CountOne([tracker EXCEPT !.count = loaded], now)
  /\ loaded' = None
  /\ last' = Observe("handle_click", NoArg, timer.state,
                     Result(timer, NoReturn, "counted",
                            CallCounted(OnClickCounted, CK_check_milestone(loaded + 1)),
                            FALSE))
  /\ UNCHANGED << now, timer_vars, session_vars, pause_open, widget_vars,
                  last_session, gui_pc, tracked, reset_done >>

\* The clock is read anew between two handlers of the Tk thread, and not
\* in the middle of a click.
GuiAdvance ==
  \E i \in GuiInstants :
    /\ gui_pc \in {"idle", "closed"}
    /\ loaded = None
    /\ i > now
    /\ now' = i
    /\ tracked' = IF tracker.is_listening /\ ~tracker.is_paused
                  THEN tracked + (i - now) ELSE tracked
    /\ last' = Observe("advance", NoArg, timer.state, NoResult)
    /\ UNCHANGED << timer_vars, session_vars, tracker_vars, widget_vars,
                    last_session, gui_pc, loaded, reset_done >>

NextGUI ==
  \/ LoadSettings
  \/ OnRegionDrawn
  \/ ToggleListening
  \/ TogglePause
  \/ ResetSessionSave
  \/ ResetSessionTracker
  \/ ResetSessionTimer
  \/ ResetSessionStop
  \/ OnClosing
  \/ ListenerEnter
  \/ ListenerStore
  \/ GuiAdvance

SpecGUI == Init /\ [][NextGUI]_vars

\* ------------------------------------------------------------ properties
ValidMinutes(m) == m.isint /\ m.val >= MinDuration /\ m.val <= MaxDuration

\* C1 (as stated): once COMPLETED, only reset() changes the state; start()
\* and resume() called while COMPLETED return false and leave it COMPLETED.
C1_CompletedOnlyLeftByReset ==
  (last.pre = COMPLETED /\ last.op # "reset") =>
     /\ timer.state = COMPLETED
     /\ last.op \in {"start", "resume"} => ~last.ret

\* C1 (amended): from COMPLETED, reset() leads to STOPPED and start() or
\* resume() perform a fresh start (return true, RUNNING, the full duration
\* remaining, on_start triggered); every other operation leaves the timer
\* COMPLETED.
C1_CompletedLeftByResetOrFreshStart ==
  last.pre = COMPLETED =>
    IF last.op = "reset" THEN timer.state = STOPPED
    ELSE IF last.op \in {"start", "resume"}
    THEN /\ last.ret
         /\ last.branch = "fresh"
         /\ timer.state = RUNNING
         /\ timer.remaining_seconds = timer.duration_seconds
         /\ timer.start_time = now
         /\ last.calls = Fire(timer, "on_start", << >>)
    ELSE /\ timer.state = COMPLETED
         /\ last.op \in {"pause", "set_duration", "update"} => ~last.ret

C1_Witness ==
  /\ last.pre = COMPLETED
  /\ last.op = "start"
  /\ last.ret
  /\ timer.state = RUNNING

\* C2 (as stated): after resuming a 300 s countdown that was paused at 120 s
\* of running time, remaining_seconds is 180.
C2_ResumeShows180 ==
  ( /\ last.op = "resume"
    /\ last.pre = PAUSED
    /\ timer.duration_seconds = Sec(300)
    /\ timer.elapsed_when_paused = Sec(120) )
  => timer.remaining_seconds = Sec(180)

\* C2 (amended): resume() from PAUSED returns true and leaves
\* remaining_seconds as it was when pause() was called, the value of the last
\* update() that took effect: 180 for a 300 s countdown paused at 120 s when
\* an update() took effect at 120 s of running time.  The length of the pause
\* has no influence: on return the time since start_time is the running time
\* snapshotted by pause().
C2_ResumeKeepsRemaining ==
  [][ (last'.op = "resume" /\ timer.state = PAUSED) =>
        /\ last'.ret
        /\ timer'.state = RUNNING
        /\ timer'.remaining_seconds = timer.remaining_seconds
        /\ timer'.remaining_seconds = timer.duration_seconds - upd_R
        /\ now' - timer'.start_time = timer.elapsed_when_paused
        /\ timer.elapsed_when_paused = R
        /\ ( /\ timer.duration_seconds = Sec(300)
             /\ timer.elapsed_when_paused = Sec(120)
             /\ upd_R = Sec(120) )
           => timer'.remaining_seconds = Sec(180) ]_vars

C2_Witness ==
  /\ last.op = "resume"
  /\ last.pre = PAUSED
  /\ timer.duration_seconds = Sec(300)
  /\ timer.elapsed_when_paused = Sec(120)
  /\ timer.remaining_seconds = Sec(180)
  /\ now - Epoch >= Sec(180)

\* Number of update() calls made since the start in the 1 Hz scenario.
UpdatesDone ==
  LET seconds == (now - timer.start_time) \div TicksPerSecond
  IN  IF last.op = "advance" THEN seconds - 1 ELSE seconds

\* C3: in the 1 Hz scenario with duration d minutes, the timer is COMPLETED
\* from the update at 60*d seconds on, on_complete has fired once from then
\* on and never before, and on_tick has fired once at each earlier update and
\* never at or after completion.
C3_OneHertzRun ==
  timer.start_time # None =>
    LET total == SecondsPerMinute * timer.duration_minutes
    IN  /\ timer.state = (IF UpdatesDone >= total THEN COMPLETED ELSE RUNNING)
        /\ handler_count["on_complete"] = (IF UpdatesDone >= total THEN 1 ELSE 0)
        /\ handler_count["on_tick"] = Min(UpdatesDone, total - 1)
        /\ last.op = "update" =>
             /\ last.ret = (UpdatesDone < total)
             /\ last.calls =
                  IF UpdatesDone < total
                  THEN << [event |-> "on_tick", handler |-> CountingHandler,
                           args |-> << (total - UpdatesDone) \div SecondsPerMinute,
                                       (total - UpdatesDone) % SecondsPerMinute >>] >>
                  ELSE IF UpdatesDone = total
                  THEN << [event |-> "on_complete", handler |-> CountingHandler,
                           args |-> << >>] >>
                  ELSE << >>

C3_Witness ==
  /\ last.op = "update"
  /\ timer.state = COMPLETED
  /\ timer.duration_minutes = 1
  /\ UpdatesDone = SecondsPerMinute + ExtraSeconds
  /\ handler_count["on_complete"] = 1
  /\ handler_count["on_tick"] = SecondsPerMinute - 1

\* C4: after every update() that takes effect, remaining_seconds is
\* max(0, duration_seconds - R), R being the time spent RUNNING since the
\* last fresh start; a RUNNING timer's start_time lies exactly R before now.
C4_RemainingExcludesPauses ==
  /\ (last.op = "update" /\ last.branch \in {"tick", "completed"}) =>
        timer.remaining_seconds = Max(0, timer.duration_seconds - R)
  /\ timer.state = RUNNING => now - timer.start_time = R

C4_Witness ==
  /\ last.op = "update"
  /\ last.branch = "tick"
  /\ timer.elapsed_when_paused > 0
  /\ timer.start_time \notin Instants
  /\ timer.remaining_seconds = timer.duration_seconds - R

\* C5: reset() in any state returns true, leaves the timer STOPPED with the
\* full duration remaining and start_time, pause_time, elapsed_when_paused
\* and last_update_time cleared, keeps the duration, and triggers on_reset
\* once.
C5_ResetFromAnyState ==
  [][ last'.op = "reset" =>
        /\ last'.ret
        /\ ~last'.raised
        /\ timer'.state = STOPPED
        /\ timer'.remaining_seconds = timer'.duration_seconds
        /\ timer'.start_time = None
        /\ timer'.pause_time = None
        /\ timer'.elapsed_when_paused = 0
        /\ timer'.last_update_time = None
        /\ timer'.duration_minutes = timer.duration_minutes
        /\ timer'.duration_seconds = timer.duration_seconds
        /\ timer'.callbacks = timer.callbacks
        /\ last'.calls = Fire(timer, "on_reset", << >>)
        /\ timer.callbacks["on_reset"] # NoHandler => Len(last'.calls) = 1 ]_vars

C5_Witness ==
  /\ last.op = "reset"
  /\ last.pre = PAUSED
  /\ timer.state = STOPPED
  /\ Len(last.calls) = 1
  /\ timer.duration_minutes = 1

\* C6: set_duration(d) with d in 1..60 on a STOPPED timer returns true, sets
\* duration_minutes = d and duration_seconds = 60*d, get_remaining_time()
\* is then (d, 0), and on_duration_change is triggered once with d.
C6_SetDurationAccepted ==
  [][ ( /\ last'.op = "set_duration"
        /\ timer.state = STOPPED
        /\ ValidMinutes(last'.arg) ) =>
        /\ last'.ret
        /\ ~last'.raised
        /\ timer'.state = STOPPED
        /\ timer'.duration_minutes = last'.arg.val
        /\ timer'.duration_seconds = Sec(SecondsPerMinute * last'.arg.val)
        /\ CT_get_remaining_time(timer') = << last'.arg.val, 0 >>
        /\ last'.calls = Fire(timer, "on_duration_change", << last'.arg.val >>)
        /\ timer.callbacks["on_duration_change"] # NoHandler => Len(last'.calls) = 1 ]_vars

C6_Witness ==
  /\ last.op = "set_duration"
  /\ last.arg = IntArg(MaxDuration)
  /\ last.ret
  /\ timer.duration_seconds = Sec(3600)
  /\ CT_get_remaining_time(timer) = << 60, 0 >>
  /\ Len(last.calls) = 1

\* C7: set_duration(d) returns false, changes nothing and triggers no
\* callback when the timer is not STOPPED or d is not an int in 1..60.
C7_SetDurationRejected ==
  [][ ( /\ last'.op = "set_duration"
        /\ (timer.state # STOPPED \/ ~ValidMinutes(last'.arg)) ) =>
        /\ ~last'.ret
        /\ ~last'.raised
        /\ timer' = timer
        /\ last'.calls = << >> ]_vars

C7_Witness ==
  /\ last.op = "set_duration"
  /\ ValidMinutes(last.arg)
  /\ last.pre = COMPLETED
  /\ ~last.ret

\* C8: start() while RUNNING returns false, changes no field and triggers
\* neither on_start nor on_resume.
C8_StartWhileRunning ==
  [][ (last'.op = "start" /\ timer.state = RUNNING) =>
        /\ ~last'.ret
        /\ ~last'.raised
        /\ timer' = timer
        /\ last'.calls = << >> ]_vars

C8_Witness ==
  /\ last.op = "start"
  /\ last.pre = RUNNING
  /\ ~last.ret
  /\ now > timer.start_time

\* C9: pause() from RUNNING returns true, sets elapsed_when_paused to
\* now - start_time, moves to PAUSED and triggers on_pause once; from any
\* other state it returns false, changes no field and triggers nothing.
C9_PauseOnlyFromRunning ==
  [][ last'.op = "pause" =>
        IF timer.state = RUNNING
        THEN /\ last'.ret
             /\ ~last'.raised
             /\ timer'.state = PAUSED
             /\ timer'.elapsed_when_paused = now - timer.start_time
             /\ timer'.pause_time = now
             /\ last'.calls = Fire(timer, "on_pause", << >>)
             /\ timer.callbacks["on_pause"] # NoHandler => Len(last'.calls) = 1
        ELSE /\ ~last'.ret
             /\ ~last'.raised
             /\ timer' = timer
             /\ last'.calls = << >> ]_vars

C9_Witness ==
  /\ last.op = "pause"
  /\ last.ret
  /\ timer.state = PAUSED
  /\ timer.elapsed_when_paused > 0
  /\ Len(last.calls) = 1

\* The timer t with handler h registered for every event.
WithHandlers(t, h) == [t EXCEPT !.callbacks = [e \in Events |-> h]]

\* The results of every operation that triggers a callback, called on t at
\* the clock reading clock.
Operations ==
  { << o, NoArg >> : o \in {"start", "pause", "resume", "reset", "update"} } \cup
  { << "set_duration", m >> : m \in MinutesInputs }

Run(op, t, clock) ==
  IF op[1] = "start" THEN CT_start(t, clock)
  ELSE IF op[1] = "pause" THEN CT_pause(t, clock)
  ELSE IF op[1] = "resume" THEN CT_resume(t, clock)
  ELSE IF op[1] = "reset" THEN CT_reset(t)
  ELSE IF op[1] = "update" THEN CT_update(t, clock)
  ELSE CT_set_duration(t, op[2])

\* C10: with raising handlers registered, every operation leaves the timer
\* in the state, and returns the value, that the same call gives with no
\* handler registered, and no exception reaches the caller.
C10_RaisingHandlersContained ==
  /\ ~last.raised
  /\ \A op \in Operations : \A clock \in {i \in Instants : i >= now} :
       LET raising == Run(op, WithHandlers(timer, RaisingHandler), clock)
           bare    == Run(op, WithHandlers(timer, NoHandler), clock)
       IN  /\ ~raising.raised
           /\ raising.ret = bare.ret
           /\ WithHandlers(raising.t, NoHandler) = bare.t

C10_Witness ==
  /\ last.op = "update"
  /\ last.branch = "tick"
  /\ Len(last.calls) = 1
  /\ last.calls[1].handler = RaisingHandler
  /\ timer.last_update_time = now

\* C11: in every reachable state 0 <= remaining_seconds <= duration_seconds.
C11_RemainingInRange ==
  /\ 0 <= timer.remaining_seconds
  /\ timer.remaining_seconds <= timer.duration_seconds

C11_Witness ==
  /\ last.op = "update"
  /\ last.branch = "completed"
  /\ now - timer.start_time > timer.duration_seconds
  /\ timer.remaining_seconds = 0

\* C12: get_progress_percentage() lies in [0, 100], is exactly 100 once the
\* timer is COMPLETED, and never decreases from one step to the next within
\* a run (any step but a fresh start or a reset).
C12_ProgressMonotone ==
  /\ [] ( /\ FracLeq(Fraction(0, 1), CT_get_progress_percentage(timer))
          /\ FracLeq(CT_get_progress_percentage(timer), Fraction(100, 1))
          /\ timer.state = COMPLETED =>
               FracEq(CT_get_progress_percentage(timer), Fraction(100, 1)) )
  /\ [][ last'.branch \notin {"fresh", "reset"} =>
           FracLeq(CT_get_progress_percentage(timer),
                   CT_get_progress_percentage(timer')) ]_vars

C12_Witness ==
  /\ timer.state = COMPLETED
  /\ last.op = "update"
  /\ timer.elapsed_when_paused > 0
  /\ timer.start_time \notin Instants
  /\ FracEq(CT_get_progress_percentage(timer), Fraction(100, 1))

\* C13: an update() of a RUNNING timer made less than update_interval after
\* the last successful start()/resume() or the last tick changes no field,
\* triggers no callback and returns true; so two ticks are at least
\* update_interval apart.
C13_UpdateThrottled ==
  [][ ( /\ last'.op = "update"
        /\ timer.state = RUNNING
        /\ effect_time # None )
      => IF now' - effect_time < Sec(UpdateIntervalSeconds)
         THEN /\ timer' = timer
              /\ last'.ret
              /\ last'.calls = << >>
              /\ handler_count' = handler_count
         ELSE last'.branch \in {"tick", "completed"} ]_vars

C13_Witness ==
  /\ last.op = "update"
  /\ last.branch = "throttled"
  /\ now > effect_time
  /\ effect_time > timer.start_time
  /\ timer.callbacks["on_tick"] # NoHandler

\* C14: update() on a STOPPED, PAUSED or COMPLETED timer changes no field
\* and triggers neither on_tick nor on_complete.
C14_UpdateWhenNotRunning ==
  [][ (last'.op = "update" /\ timer.state # RUNNING) =>
        /\ timer' = timer
        /\ last'.calls = << >>
        /\ last'.ret = (timer.state # COMPLETED) ]_vars

C14_Witness ==
  /\ last.op = "update"
  /\ last.pre = PAUSED
  /\ now - timer.pause_time >= Sec(SecondsPerMinute)
  /\ timer.callbacks["on_tick"] # NoHandler

\* C15: PAUSED is entered only by pause() from RUNNING, COMPLETED only by
\* update() from RUNNING, RUNNING only by start() or resume(), STOPPED only
\* by reset(); set_duration and set_callback never change the state.
C15_StateEdges ==
  [][ /\ timer'.state # timer.state =>
           /\ timer'.state = PAUSED =>
                last'.op = "pause" /\ timer.state = RUNNING
           /\ timer'.state = COMPLETED =>
                last'.op = "update" /\ timer.state = RUNNING
           /\ timer'.state = RUNNING => last'.op \in {"start", "resume"}
           /\ timer'.state = STOPPED => last'.op = "reset"
      /\ last'.op \in {"set_duration", "set_callback"} =>
           timer'.state = timer.state ]_vars

C15_Witness ==
  /\ last.op = "set_callback"
  /\ last.ret
  /\ last.pre = COMPLETED
  /\ timer.state = COMPLETED

\* C16: set_callback with an unknown event name returns false, leaves every
\* registered callback as it was and creates no slot.
C16_UnknownEventRejected ==
  [][ (last'.op = "set_callback" /\ last'.arg.event \notin Events) =>
        /\ ~last'.ret
        /\ timer' = timer
        /\ DOMAIN timer'.callbacks = Events ]_vars

C16_Witness ==
  /\ last.op = "set_callback"
  /\ last.arg = CallbackArg("on_unknown", RaisingHandler)
  /\ ~last.ret
  /\ timer.callbacks["on_tick"] = NoopHandler

\* C17: SessionTimer.start() on a started session (running or paused)
\* changes no field, so the elapsed time is what it was.
C17_SessionStartIdempotent ==
  [][ (last'.op = "st_start" /\ session.start_time # None) =>
        /\ session' = session
        /\ ST_elapsed_seconds(session', now') = ST_elapsed_seconds(session, now) ]_vars

C17_Witness ==
  /\ last.op = "st_start"
  /\ last_change = "st_pause"
  /\ ST_is_paused(session)
  /\ session.start_time < session.paused_time
  /\ session.paused_time < now

\* C18: for a started SessionTimer elapsed_seconds() is the whole seconds of
\* the time since start() minus all paused intervals, after any number of
\* pause()/resume() cycles.
C18_ElapsedExcludesPauses ==
  session.start_time # None =>
    ST_elapsed_seconds(session, now) = active \div TicksPerSecond

C18_Witness ==
  /\ last.op = "st_resume"
  /\ last_change = "st_resume"
  /\ session.total_paused_duration >= Sec(2 * SecondsPerMinute)
  /\ active = Sec(SecondsPerMinute) + 1
  /\ ST_elapsed_seconds(session, now) = SecondsPerMinute

\* C19: while a SessionTimer is paused, elapsed_seconds() is at every clock
\* reading the value it had at the instant pause() took effect.
C19_ElapsedFrozenWhilePaused ==
  ST_is_paused(session) => ST_elapsed_seconds(session, now) = frozen

C19_Witness ==
  /\ ST_is_paused(session)
  /\ last.op = "advance"
  /\ now - session.paused_time >= Sec(SecondsPerMinute)
  /\ session.total_paused_duration > 0
  /\ frozen = SecondsPerMinute

\* C20: elapsed_seconds() is never negative, and it is 0 when the session
\* was never started or stop() or reset() was the last operation that
\* changed it.
C20_ElapsedNonNegative ==
  /\ ST_elapsed_seconds(session, now) >= 0
  /\ last_change \in {"init", "st_stop", "st_reset"} =>
       ST_elapsed_seconds(session, now) = 0

C20_Witness ==
  /\ last_change = "st_stop"
  /\ last.op = "advance"
  /\ active >= Sec(SecondsPerMinute)
  /\ ST_elapsed_seconds(session, now) = 0

\* C24: every update() returns false exactly when the state on return is
\* COMPLETED, and true in STOPPED, PAUSED and RUNNING (throttled or ticked).
C24_UpdateFalseIffCompleted ==
  last.op = "update" =>
    /\ ~last.ret <=> timer.state = COMPLETED
    /\ last.branch \in {"throttled", "no_start_time", "tick"} =>
         (last.ret /\ timer.state = RUNNING)

C24_Witness ==
  /\ last.op = "update"
  /\ last.pre = COMPLETED
  /\ last.branch = "inactive"
  /\ ~last.ret
  /\ timer.state = COMPLETED

\* C25: resume() is start() in every state: the same object, return value
\* and callback invocations result.  From PAUSED it resumes and triggers
\* on_resume, from RUNNING it returns false and changes nothing, from STOPPED
\* it starts afresh and triggers on_start; a successful call triggers one of
\* the two events, once.
C25_ResumeIsStart ==
  [][ last'.op = "resume" =>
        /\ timer' = CT_start(timer, now).t
        /\ last'.ret = CT_start(timer, now).ret
        /\ last'.calls = CT_start(timer, now).calls
        /\ timer.state = PAUSED =>
             /\ last'.ret /\ last'.branch = "resume" /\ timer'.state = RUNNING
             /\ last'.calls = Fire(timer, "on_resume", << >>)
        /\ timer.state = RUNNING =>
             /\ ~last'.ret /\ timer' = timer /\ last'.calls = << >>
        /\ timer.state = STOPPED =>
             /\ last'.ret /\ last'.branch = "fresh" /\ timer'.state = RUNNING
             /\ timer'.remaining_seconds = timer.duration_seconds
             /\ last'.calls = Fire(timer, "on_start", << >>)
        /\ last'.ret =>
             /\ last'.branch \in {"fresh", "resume"}
             /\ Len(last'.calls) <= 1
             /\ (timer.callbacks["on_start"] # NoHandler
                   /\ timer.callbacks["on_resume"] # NoHandler) =>
                  /\ Len(last'.calls) = 1
                  /\ last'.calls[1].event \in {"on_start", "on_resume"} ]_vars

C25_Witness ==
  /\ last.op = "resume"
  /\ last.pre = STOPPED
  /\ last.ret
  /\ last.branch = "fresh"
  /\ Len(last.calls) = 1
  /\ last.calls[1].event = "on_start"

\* C26: duration_minutes and duration_seconds change only in a successful
\* set_duration() called in state STOPPED, and duration_seconds is always
\* 60 * duration_minutes.
C26_DurationFrame ==
  /\ [](timer.duration_seconds = Sec(SecondsPerMinute * timer.duration_minutes))
  /\ [][ ( \/ timer'.duration_minutes # timer.duration_minutes
           \/ timer'.duration_seconds # timer.duration_seconds ) =>
          /\ last'.op = "set_duration"
          /\ last'.ret
          /\ timer.state = STOPPED ]_vars

C26_Witness ==
  /\ timer.duration_minutes = 1
  /\ timer.duration_seconds = Sec(SecondsPerMinute)
  /\ last.op = "reset"
  /\ last.pre = COMPLETED

\* C27: SessionTimer.pause() before start() or while already paused changes
\* no field (the first pause instant is kept), and resume() while not paused
\* changes no field (total_paused_duration is what it was).
C27_SessionPauseResumeNoOps ==
  [][ /\ ( /\ last'.op = "st_pause"
           /\ (session.start_time = None \/ ST_is_paused(session)) ) =>
          session' = session
      /\ (last'.op = "st_resume" /\ ~ST_is_paused(session)) =>
          session' = session ]_vars

C27_Witness ==
  /\ last.op = "st_pause"
  /\ last_change = "st_pause"
  /\ ST_is_paused(session)
  /\ session.paused_time < now
  /\ session.total_paused_duration > 0

\* The event each branch of an operation triggers.
BranchEvent ==
  [ set |-> "on_duration_change", fresh |-> "on_start", resume |-> "on_resume",
    paused |-> "on_pause", reset |-> "on_reset", completed |-> "on_complete",
    tick |-> "on_tick" ]

\* C28: a successful set_callback(e, g) replaces the handler of e and leaves
\* the handlers of the other events as they were; from then on an occurrence
\* of e invokes g, once, and never the handler registered before.
C28_CallbackReplaced ==
  [][ /\ (last'.op = "set_callback" /\ last'.ret) =>
          timer' = [timer EXCEPT !.callbacks[last'.arg.event] = last'.arg.callback]
      /\ last'.op \notin {"set_callback", "wire", "advance"} =>
          /\ timer'.callbacks = timer.callbacks
          /\ IF last'.branch \in DOMAIN BranchEvent
             THEN LET e == BranchEvent[last'.branch]
                  IN  IF timer.callbacks[e] = NoHandler
                      THEN last'.calls = << >>
                      ELSE /\ Len(last'.calls) = 1
                           /\ last'.calls[1].event = e
                           /\ last'.calls[1].handler = timer.callbacks[e]
             ELSE last'.calls = << >> ]_vars

C28_Witness ==
  /\ last.op = "start"
  /\ last.branch = "fresh"
  /\ Len(last.calls) = 1
  /\ last.calls[1].event = "on_start"
  /\ last.calls[1].handler = NoopHandler
  /\ timer.callbacks["on_reset"] = RaisingHandler
  /\ timer.callbacks["on_tick"] = RaisingHandler

\* C29 (as stated): after pause_listening() has paused a listening tracker
\* and before the next call of resume_listening(), handle_click changes
\* neither count nor click_times and does not call on_counted.
C29_NoCountAfterPauseCall ==
  [][ (pause_open /\ last'.op = "handle_click") =>
        /\ tracker'.count = tracker.count
        /\ tracker'.click_times = tracker.click_times
        /\ last'.calls = << >> ]_vars

\* C29 (amended): while is_paused is set, handle_click changes nothing and
\* does not call on_counted, for every position and button.  is_paused is
\* set only by pause_listening() on a listening tracker and stays set until
\* resume_listening() or stop_listening(); a tracker that is paused is
\* listening.
C29_NoCountWhilePaused ==
  /\ [](tracker.is_paused => tracker.is_listening)
  /\ [][ /\ (tracker.is_paused /\ last'.op = "handle_click") =>
             (tracker' = tracker /\ last'.calls = << >>)
         /\ (tracker'.is_paused /\ ~tracker.is_paused) =>
             (last'.op = "pause_listening" /\ tracker.is_listening)
         /\ (tracker.is_paused /\ ~tracker'.is_paused) =>
             last'.op \in {"resume_listening", "stop_listening"}
         /\ last'.op \in {"resume_listening", "stop_listening"} =>
             ~tracker'.is_paused ]_vars

C29_Witness ==
  /\ last.op = "handle_click"
  /\ last.branch = "paused"
  /\ tracker.is_paused
  /\ last.arg.pressed /\ last.arg.button = LeftButton
  /\ last.arg.window_is_browser
  /\ \E i \in 1..Len(tracker.regions) :
       InRegion(tracker.regions[i], last.arg.x, last.arg.y)
  /\ tracker.listener = RaisingHandler
  /\ tracker.count = 1

\* C30: a pressed left click that passes the pause check and the browser
\* check adds exactly 1 to count when its point is in at least one region
\* (bounds included), however many regions contain it, and leaves count as
\* it was when the point is in no region; a release or another button never
\* changes count.
C30_CountsOncePerClick ==
  [][ last'.op = "handle_click" =>
        LET c == last'.arg
            inside == \E i \in 1..Len(tracker.regions) :
                        /\ tracker.regions[i].x1 <= c.x /\ c.x <= tracker.regions[i].x2
                        /\ tracker.regions[i].y1 <= c.y /\ c.y <= tracker.regions[i].y2
            left_press == c.pressed /\ c.button = LeftButton
            passes == /\ ~tracker.is_paused
                      /\ tracker.browser_detection => c.window_is_browser
        IN  /\ (left_press /\ passes /\ inside) => tracker'.count = tracker.count + 1
            /\ (left_press /\ passes /\ ~inside) => tracker'.count = tracker.count
            /\ ~left_press => tracker'.count = tracker.count ]_vars

C30_Witness ==
  /\ last.op = "handle_click"
  /\ last.branch = "counted"
  /\ tracker.regions = << RegionA, RegionB >>
  /\ last.arg.x = 20 /\ last.arg.y = 20
  /\ tracker.count = 1
  /\ tracker.click_times = << now >>

\* What the last step did, from its log.
Did(l, what) == \E i \in 1..Len(l.calls) : l.calls[i] = what

Pending(callback) == { j \in jobs : j.callback = callback }

\* C21: the widget drives update() only while the countdown is active.
\* Whenever the timer is not RUNNING (update() has returned false, or the
\* timer was paused or reset) no update job is pending and the widget is not
\* updating; update() is then called only by the play button starting or
\* resuming the timer, and while RUNNING only by the update job.
C21_UpdatesOnlyWhileActive ==
  /\ [](timer.state # RUNNING =>
          /\ Pending("schedule_update") = {}
          /\ ~widget.is_updating
          /\ widget.update_job_id = None)
  /\ [][ Did(last', "update") =>
           IF timer.state = RUNNING
           THEN last'.op = "schedule_update"
           ELSE last'.op = "toggle_timer" ]_vars

C21_Witness ==
  /\ last.op = "schedule_update"
  /\ last.pre = RUNNING
  /\ timer.state = COMPLETED
  /\ Did(last, "update")
  /\ jobs = {}
  /\ ~sound.enabled

RepeatDue(instant) ==
  \E j \in Pending("repeat_sound") :
    /\ Pending("repeat_sound") = {j}
    /\ j.id = sound.repeat_job_id
    /\ j.due = instant

C23_ResetSilences ==
  /\ [](last.op \in {"reset_timer", "cleanup"} =>
          /\ timer.state = STOPPED
          /\ ~sound.is_repeating
          /\ sound.repeat_job_id = None
          /\ Pending("repeat_sound") = {})
  /\ [](~sound.is_repeating => Pending("repeat_sound") = {})
  /\ [][ Did(last', "play") =>
           \/ timer.state # COMPLETED /\ timer'.state = COMPLETED
           \/ last'.op = "repeat_sound" /\ sound.is_repeating ]_vars

C23_Witness ==
  /\ last.op = "reset_timer"
  /\ last.pre = COMPLETED
  /\ Did(last, "cancel")
  /\ ~sound.is_repeating
  /\ jobs = {}
  /\ sound.enabled
\* ------------------------------------------------------------------
\* C31: the duration written to the session file by a reset or on closing
\*      is the time the tracker spent listening and not paused in that
\*      session, in whole seconds, also after the Stop button was used.
C31_SavedDurationIsActiveTime ==
  [][ last_session' # last_session
        => last_session'.duration_seconds = IntOf(tracked) ]_vars

\* A session with clicks is saved after Stop was pressed.
C31_Witness ==
  /\ last.op = "reset_session"
  /\ last.branch = "saved"
  /\ ~tracker.is_listening
  /\ tracked > 0
  /\ last_session.exists
  /\ last_session.completed_at = now

\* ------------------------------------------------------------------
\* C39: between two handlers of the main window, the tracker is paused
\*      exactly when the session timer is paused, and the session timer is
\*      started exactly when the tracker is listening.
C39_TrackerAndSessionTimerAgree ==
  gui_pc = "idle" =>
    /\ tracker.is_paused = ST_is_paused(session)
    /\ (session.start_time # None) = tracker.is_listening

\* Pause was pressed while tracking.
C39_Witness ==
  /\ gui_pc = "idle"
  /\ last.op = "toggle_pause"
  /\ last.branch = "paused"
  /\ tracker.is_listening
  /\ tracker.is_paused
  /\ ST_is_paused(session)

\* ------------------------------------------------------------------
\* C40: once a confirmed reset_session has finished, the count is 0 until
\*      tracking is started again, whatever the listener thread did
\*      meanwhile.
C40_CountZeroAfterReset ==
  reset_done => tracker.count = 0

\* A reset that finished while the listener was running.
C40_Witness ==
  /\ reset_done
  /\ last.op = "reset_session"
  /\ last.branch = "finished"
  /\ last_session.exists
  /\ tracker.count = 0
  /\ ~tracker.is_listening

\* ------------------------------------------------------------------
\* C32: remaining_seconds is 0 exactly when the timer is COMPLETED: a
\*      STOPPED, RUNNING or PAUSED timer has time left, a COMPLETED one none.
C32_ZeroIffCompleted ==
  (timer.remaining_seconds = 0) <=> (timer.state = COMPLETED)

\* update() has just completed the countdown.
C32_Witness ==
  /\ last.op = "update"
  /\ last.branch = "completed"
  /\ last.pre = RUNNING
  /\ timer.state = COMPLETED
  /\ timer.remaining_seconds = 0

\* ------------------------------------------------------------------
\* C33: the time fields follow the state: a STOPPED timer has no
\*      start_time, pause_time or last_update_time and no elapsed time; a
\*      RUNNING one has start_time and last_update_time and no pause_time;
\*      a PAUSED one has start_time and pause_time, and elapsed_when_paused
\*      is their difference.
C33_FieldsFollowState ==
  /\ timer.state = STOPPED =>
       /\ timer.start_time = None
       /\ timer.pause_time = None
       /\ timer.last_update_time = None
       /\ timer.elapsed_when_paused = 0
  /\ timer.state = RUNNING =>
       /\ timer.start_time # None
       /\ timer.last_update_time # None
       /\ timer.pause_time = None
  /\ timer.state = PAUSED =>
       /\ timer.start_time # None
       /\ timer.pause_time # None
       /\ timer.elapsed_when_paused = timer.pause_time - timer.start_time

\* A timer paused again after it was resumed at a later instant.
C33_Witness ==
  /\ last.op = "pause"
  /\ last.ret
  /\ timer.state = PAUSED
  /\ timer.elapsed_when_paused > 0
  /\ timer.start_time # None
  /\ timer.pause_time > timer.start_time

\* ------------------------------------------------------------------
\* C34: when the play button calls start() or resume() on a timer that is
\*      not RUNNING (the call returns true), the timer is RUNNING when the
\*      call returns and neither on_tick nor on_complete fired during it.
C34_StartReturnsRunning ==
  (last.op = "toggle_timer" /\ last.pre # RUNNING) =>
    /\ timer.state = RUNNING
    /\ ~Did(last, "on_tick")
    /\ ~Did(last, "on_complete")

\* resume() returned true on a timer paused after its time had run out: the
\* handler's update() completed it inside the call.
C34_Witness ==
  /\ last.op = "toggle_timer"
  /\ last.pre = PAUSED
  /\ Did(last, "update")
  /\ Did(last, "on_complete")
  /\ timer.state = COMPLETED
  /\ timer.last_update_time = now

\* ------------------------------------------------------------------
\* C35: at most one update job is pending at any time, and it is the one
\*      the widget holds the id of.
C35_OneUpdateLoop ==
  /\ Cardinality(Pending("schedule_update")) <= 1
  /\ \A j \in Pending("schedule_update") : j.id = widget.update_job_id

\* The countdown was resumed after a pause: one job is pending again.
C35_Witness ==
  /\ last.op = "toggle_timer"
  /\ last.pre = PAUSED
  /\ timer.state = RUNNING
  /\ widget.is_updating
  /\ Cardinality(Pending("schedule_update")) = 1

\* ------------------------------------------------------------------
\* C36: while the timer is RUNNING an update job is pending, and a RUNNING
\*      timer eventually leaves that state: it is paused or reset, or it is
\*      COMPLETED by an update() that fires on_complete.
C36_EventuallyCompletes ==
  /\ [](timer.state = RUNNING =>
          /\ widget.is_updating
          /\ Pending("schedule_update") # {})
  /\ (timer.state = RUNNING) ~>
       \/ timer.state \in {PAUSED, STOPPED}
       \/ timer.state = COMPLETED /\ Did(last, "on_complete")

\* A due update job has completed the countdown.
C36_Witness ==
  /\ last.op = "schedule_update"
  /\ last.pre = RUNNING
  /\ timer.state = COMPLETED
  /\ Did(last, "on_complete")
  /\ now >= timer.start_time + timer.duration_seconds

C38_IdleIsClean ==
  session.start_time = None =>
    /\ session.paused_time = None
    /\ ~ST_is_paused(session)
    /\ session.total_paused_duration = 0

\* stop() on a timer that had run for a while.
C38_Witness ==
  /\ last.op = "st_stop"
  /\ last_change = "st_stop"
  /\ session.start_time = None
  /\ active > 0
  /\ frozen > 0

====
